---- MODULE Spec2Model ----
(***************************************************************************)
(* Hyperlocale_News_AI: the PDF scraper (Scrapper/RAG_Scrapper.py), the    *)
(* summary generator (Model/summarization.py, Model/prompt_engg.py,        *)
(* Model/RAG_model.py) and the dashboard loader (app.py).                  *)
(***************************************************************************)
EXTENDS Integers, Sequences, FiniteSets, TLC

VARIABLES
    \* ---- PDFNewsScraper.scrape_website / _discover_pdf_links ----
    pc,            \* position in scrape_website
    max_depth,     \* self.max_depth
    num_pdfs,      \* self.num_pdfs
    workers,       \* self.workers
    queue,         \* deque of <<url, depth>>
    visited,       \* set of urls
    pdf_links,     \* list of pdf urls, in order of discovery
    seen_pdfs,     \* set of pdf urls
    fetched,       \* history: the pages processed, [url, depth], in order
    enq,           \* history: [from, fromDepth, link, depth] for each queue.append
    nfetch,        \* history: number of session.get calls of the crawl
    last,          \* history: what the last loop iteration did
    pdf_urls,      \* the list _discover_pdf_links returned
    futures,       \* the state of the download future of each entry of pdf_urls
    idx,           \* enumerate() counter of the as_completed loop
    files,         \* the text files written: set of [name, url]
    successful_extractions,
    handling,      \* the pdfs the calling thread has handled, in order
    ret,           \* what scrape_website returned
    \* ---- generate_category_summaries ----
    s_pc,          \* position in generate_category_summaries
    rag_chains,    \* the dict of dicts of chains: <<[locality, chains]>> in key order
    llm,           \* the language model of the chains: what it can answer with
    pos,           \* number of (locality, category) pairs the loops have gone through
    all_summaries, \* the list of entries
    outcomes,      \* history: how the try block of each pair ended
    \* ---- app.py: load_and_process_data ----
    d_pc,          \* position in load_and_process_data
    data,          \* the list json.load returned
    table,         \* the rows of the DataFrame returned: [idx, rec]
    \* ---- app.py: main, one run of the script per rerun ----
    m_pc,          \* position in main
    session_state, \* st.session_state: a function of the keys it has
    widgets,       \* the values of the sidebar widgets
    clicked,       \* the key of the button whose click started the rerun
    articles_df,   \* the rows load_and_process_data returns
    cached,        \* st.cache_data holds the result of load_and_process_data
    current_filters,
    buttons,       \* the keys of the buttons the last run rendered
    hist,          \* history: the filter triples and the state the filter block met
    \* ---- the functions on text: one call of one function ----
    t_pc,          \* position in the function called
    arg,           \* the argument of the call
    t_text,        \* the local the function works on
    result         \* what the call returned

scraperVars == <<pc, max_depth, num_pdfs, workers, queue, visited, pdf_links,
                 seen_pdfs, fetched, enq, nfetch, last, pdf_urls,
                 futures, idx, files, successful_extractions, handling, ret>>

summVars == <<s_pc, rag_chains, llm, pos, all_summaries, outcomes>>

dashVars == <<d_pc, data, table>>

mainVars == <<m_pc, session_state, widgets, clicked, articles_df, cached,
              current_filters, buttons, hist>>

textVars == <<t_pc, arg, t_text, result>>

vars == <<scraperVars, summVars, dashVars, mainVars, textVars>>

----------------------------------------------------------------------------
(* Bounds of the model *)

MaxAnchors == 2        \* <a href> elements per fetched document
MaxDepthArg == 2       \* max_depth is drawn from -1..MaxDepthArg
MaxNumPdfs == 2        \* num_pdfs is drawn from 0..MaxNumPdfs
MaxWorkers == 2        \* workers is drawn from 1..MaxWorkers

----------------------------------------------------------------------------
(* URLs are sequences of tokens, so that `base_url in link` is computed. *)

base_url == <<"a", "/e/">>                 \* the site's e-paper section
PageP    == <<"a", "/e/", "p">>            \* a page under base_url
PageX    == <<"x", "?u=", "a", "/e/">>     \* a page of another site, base_url in its query
PdfF     == <<"a", "/w/", "f", ".pdf">>    \* a pdf of the site, outside base_url
PdfG     == <<"x", "/g", ".pdf">>          \* a pdf of another site

Hrefs == {base_url, PageP, PageX, PdfF, PdfG}

\* every document a fetch can return: its <a href> values in document order
Docs == UNION {[1..n -> Hrefs] : n \in 0..MaxAnchors}

Range(s) == {s[i] : i \in DOMAIN s}

Min(a, b) == IF a <= b THEN a ELSE b
Max(a, b) == IF a >= b THEN a ELSE b

\* Python: needle in hay (substring)
Contains(needle, hay) ==
    \E i \in 0..(Len(hay) - Len(needle)) :
        SubSeq(hay, i + 1, i + Len(needle)) = needle

\* Python: href.lower().endswith(".pdf")
EndsWithPdf(href) == Len(href) > 0 /\ href[Len(href)] = ".pdf"

\* Python: s[:n]
SliceTo(s, n) ==
    IF n >= 0 THEN SubSeq(s, 1, Min(n, Len(s)))
    ELSE SubSeq(s, 1, Max(0, Len(s) + n))

\* the orders in which a Python set can be iterated
Orders(S) == {o \in [1..Cardinality(S) -> S] : Range(o) = S}

----------------------------------------------------------------------------
(* _extract_pdf_links: the set of pdf links of a document; set() on error *)

ExtractPdfLinks(doc, ok) ==
    IF ok THEN {h \in Range(doc) : EndsWithPdf(h)} ELSE {}

(* lines 207-210: append the links not seen before, in iteration order *)
ScanPdfLinksNoSeen(links, seen, order) ==
    [links |-> links \o order, seen |-> seen \cup Range(order)]
RECURSIVE ScanPdfLinks(_, _, _)
ScanPdfLinks(links, seen, order) ==
    IF order = <<>> THEN [links |-> links, seen |-> seen]
    ELSE IF Head(order) \notin seen
         THEN ScanPdfLinks(Append(links, Head(order)), seen \cup {Head(order)}, Tail(order))
         ELSE ScanPdfLinks(links, seen, Tail(order))

(* line 200: the guard that skips a dequeued entry *)
SkipEntryDepthOnly(url, depth, vis, md) == depth > md
SkipEntry(url, depth, vis, md) == url \in vis \/ depth > md

(* line 213: the guard of the expansion *)
MayExpandOffByOne(depth, md) == depth <= md
MayExpand(depth, md) == depth < md

(* line 220: the filter of a link *)
FollowLink(link, vis) == Contains(base_url, link) /\ link \notin vis

(* lines 218-221: the queue entries appended for a document *)
RECURSIVE NewEntries(_, _, _)
NewEntries(doc, depth, vis) ==
    IF doc = <<>> THEN <<>>
    ELSE (IF FollowLink(Head(doc), vis) THEN << <<Head(doc), depth + 1>> >> ELSE <<>>)
         \o NewEntries(Tail(doc), depth, vis)

(* line 199: queue.popleft() as the position of the taken entry *)
PopRight(q) == Len(q)
PopLeft(q) == 1

Without(q, i) == SubSeq(q, 1, i - 1) \o SubSeq(q, i + 1, Len(q))

(* line 227 *)
ReturnAll(links, n) == links
ReturnLinks(links, n) == SliceTo(links, n)

----------------------------------------------------------------------------
(* scrape_website, lines 239-245, and the start of _discover_pdf_links,    *)
(* lines 190-195                                                          *)

ScraperInit ==
    /\ pc = "crawl"
    /\ max_depth \in -1..MaxDepthArg
    /\ num_pdfs \in 0..MaxNumPdfs
    /\ workers \in 1..MaxWorkers
    /\ queue = << <<base_url, 0>> >>
    /\ visited = {}
    /\ pdf_links = <<>>
    /\ seen_pdfs = {}
    /\ fetched = <<>>
    /\ enq = {}
    /\ nfetch = 0
    /\ last = [kind |-> "none", url |-> <<>>, depth |-> 0, wasVisited |-> FALSE,
                gets |-> 0, order |-> <<>>, before |-> <<>>]
    /\ pdf_urls = <<>>
    /\ futures = <<>>
    /\ idx = 0
    /\ files = {}
    /\ successful_extractions = 0
    /\ handling = <<>>
    /\ ret = "running"

downloadVars == <<pdf_urls, futures, idx, files, successful_extractions, handling, ret>>
paramVars == <<max_depth, num_pdfs, workers>>

(* lines 199-201: an entry that is visited already, or too deep, is dropped *)
SkipPage ==
    /\ pc = "crawl"
    /\ queue # <<>>
    /\ LET i == PopLeft(queue)
           url == queue[i][1]
           depth == queue[i][2]
       IN /\ SkipEntry(url, depth, visited, max_depth)
          /\ queue' = Without(queue, i)
          /\ last' = [kind |-> "skip", url |-> url, depth |-> depth,
                      wasVisited |-> url \in visited, gets |-> 0, order |-> <<>>,
                      before |-> pdf_links]
    /\ UNCHANGED <<pc, visited, pdf_links, seen_pdfs, fetched, enq, nfetch>>
    /\ UNCHANGED paramVars
    /\ UNCHANGED <<summVars, dashVars, mainVars, textVars>>
    /\ UNCHANGED downloadVars

(* lines 199-225: one iteration of the loop that processes a page.  doc is  *)
(* the document the site serves for url, to both requests of the           *)
(* iteration; ok1: the request of _extract_pdf_links succeeds; ok2: the     *)
(* request of the expansion succeeds; order: the order in which the set of  *)
(* pdf links is iterated.                                                   *)
ProcessPage ==
    /\ pc = "crawl"
    /\ queue # <<>>
    /\ LET i == PopLeft(queue)
           url == queue[i][1]
           depth == queue[i][2]
           rest == Without(queue, i)
       IN /\ ~SkipEntry(url, depth, visited, max_depth)
          /\ visited' = visited \cup {url}
          /\ fetched' = Append(fetched, [url |-> url, depth |-> depth])
          /\ \E doc \in Docs, ok1 \in BOOLEAN, ok2 \in BOOLEAN :
               \E order \in Orders(ExtractPdfLinks(doc, ok1)) :
                 LET scan == ScanPdfLinks(pdf_links, seen_pdfs, order)
                     new == IF ok2 THEN NewEntries(doc, depth, visited') ELSE <<>>
                     gets == IF MayExpand(depth, max_depth) THEN 2 ELSE 1
                 IN /\ pdf_links' = scan.links
                    /\ seen_pdfs' = scan.seen
                    /\ IF MayExpand(depth, max_depth)
                       THEN /\ queue' = rest \o new
                            /\ enq' = enq \cup {[from |-> url, fromDepth |-> depth,
                                                 link |-> new[k][1], depth |-> new[k][2]]
                                                : k \in DOMAIN new}
                       ELSE /\ queue' = rest
                            /\ enq' = enq
                    /\ nfetch' = nfetch + gets
                    /\ last' = [kind |-> "process", url |-> url, depth |-> depth,
                                wasVisited |-> url \in visited, gets |-> gets,
                                order |-> order, before |-> pdf_links]
    /\ UNCHANGED pc
    /\ UNCHANGED paramVars
    /\ UNCHANGED <<summVars, dashVars, mainVars, textVars>>
    /\ UNCHANGED downloadVars

(* lines 198 and 227: the queue is empty, the loop ends, the slice is returned *)
DiscoverReturn ==
    /\ pc = "crawl"
    /\ queue = <<>>
    /\ pdf_urls' = ReturnLinks(pdf_links, num_pdfs)
    /\ pc' = "discovered"
    /\ UNCHANGED <<queue, visited, pdf_links, seen_pdfs, fetched, enq, nfetch, last>>
    /\ UNCHANGED paramVars
    /\ UNCHANGED <<summVars, dashVars, mainVars, textVars>>
    /\ UNCHANGED <<futures, idx, files, successful_extractions, handling, ret>>

CrawlNext == SkipPage \/ ProcessPage \/ DiscoverReturn

----------------------------------------------------------------------------
(* scrape_website, lines 246-287 *)

crawlLocals == <<queue, visited, pdf_links, seen_pdfs, fetched, enq, nfetch, last>>

(* the locals of _discover_pdf_links are gone once scrape_website goes on *)
DropCrawlLocals ==
    /\ queue' = <<>>
    /\ visited' = {}
    /\ pdf_links' = <<>>
    /\ seen_pdfs' = {}
    /\ fetched' = <<>>
    /\ enq' = {}
    /\ nfetch' = 0
    /\ last' = [kind |-> "none", url |-> <<>>, depth |-> 0, wasVisited |-> FALSE,
                gets |-> 0, order |-> <<>>, before |-> <<>>]

(* lines 246-248: no pdf link, None is returned *)
NoPdfLinks ==
    /\ pc = "discovered"
    /\ pdf_urls = <<>>
    /\ ret' = "None"
    /\ pc' = "done"
    /\ DropCrawlLocals
    /\ UNCHANGED paramVars
    /\ UNCHANGED <<summVars, dashVars, mainVars, textVars>>
    /\ UNCHANGED <<pdf_urls, futures, idx, files, successful_extractions, handling>>

(* lines 256-262: one download is submitted for each entry of pdf_urls *)
SubmitDownloads ==
    /\ pc = "discovered"
    /\ pdf_urls # <<>>
    /\ futures' = [i \in 1..Len(pdf_urls) |-> "pending"]
    /\ successful_extractions' = 0
    /\ pc' = "download"
    /\ DropCrawlLocals
    /\ UNCHANGED paramVars
    /\ UNCHANGED <<summVars, dashVars, mainVars, textVars>>
    /\ UNCHANGED <<pdf_urls, idx, files, handling, ret>>

Running == {i \in DOMAIN futures : futures[i] = "running"}
Pending == {i \in DOMAIN futures : futures[i] = "pending"}
NotPending == {i \in DOMAIN futures : futures[i] # "pending"}
Completed == {i \in DOMAIN futures : futures[i] \in {"bytes", "empty"}}
Handled == {handling[k].i : k \in DOMAIN handling}

(* ThreadPoolExecutor: a free worker takes the oldest submitted task *)
StartDownload ==
    /\ pc = "download"
    /\ Pending # {}
    /\ Cardinality(Running) < workers
    /\ LET i == CHOOSE j \in Pending : \A k \in Pending : j <= k
       IN futures' = [futures EXCEPT ![i] = "running"]
    /\ UNCHANGED crawlLocals
    /\ UNCHANGED paramVars
    /\ UNCHANGED <<summVars, dashVars, mainVars, textVars>>
    /\ UNCHANGED <<pc, pdf_urls, idx, files, successful_extractions, handling, ret>>

(* _download_pdf, lines 158-168: the body of the response, or b"" when the *)
(* request raised; the body of a response can be empty as well             *)
DownloadPdf(ok, body) == IF ok THEN body ELSE "empty"

FinishDownload ==
    /\ pc = "download"
    /\ \E i \in Running, ok \in BOOLEAN, body \in {"bytes", "empty"} :
         futures' = [futures EXCEPT ![i] = DownloadPdf(ok, body)]
    /\ UNCHANGED crawlLocals
    /\ UNCHANGED paramVars
    /\ UNCHANGED <<summVars, dashVars, mainVars, textVars>>
    /\ UNCHANGED <<pc, pdf_urls, idx, files, successful_extractions, handling, ret>>

(* _extract_text_from_pdf, lines 170-186: "" for no content, for a pdf that *)
(* cannot be opened (parses = FALSE) and for a pdf without text             *)
ExtractTextFromPdf(content, parses, text) ==
    IF content = "empty" THEN ""
    ELSE IF ~parses THEN ""
    ELSE text

(* line 277: the name of the file of the idx-th completed download *)
FileNameFixed(i) == 1
FileName(i) == i + 1

(* line 278: write_text creates the file or replaces its content *)
WriteText(fs, name, url) == {f \in fs : f.name # name} \cup {[name |-> name, url |-> url]}

(* lines 263-284: one iteration of the as_completed loop, in the calling thread *)
HandleCompleted ==
    /\ pc = "download"
    /\ \E i \in Completed \ Handled, parses \in BOOLEAN, body \in {"", "text"} :
         LET pdf_content == futures[i]
             text == ExtractTextFromPdf(pdf_content, parses, body)
             saved == pdf_content # "empty" /\ text # ""
             name == FileName(idx)
         IN /\ idx' = idx + 1
            /\ handling' = Append(handling, [i |-> i, url |-> pdf_urls[i],
                                             content |-> pdf_content, text |-> text,
                                             saved |-> saved, name |-> name])
            /\ IF saved
               THEN /\ files' = WriteText(files, name, pdf_urls[i])
                    /\ successful_extractions' = successful_extractions + 1
               ELSE UNCHANGED <<files, successful_extractions>>
    /\ UNCHANGED crawlLocals
    /\ UNCHANGED paramVars
    /\ UNCHANGED <<summVars, dashVars, mainVars, textVars>>
    /\ UNCHANGED <<pc, pdf_urls, futures, ret>>

(* lines 286-287: every future was yielded; the directory is returned *)
ReturnValue(n) == "output_dir"

ScrapeReturn ==
    /\ pc = "download"
    /\ Handled = DOMAIN futures
    /\ ret' = ReturnValue(successful_extractions)
    /\ pc' = "done"
    /\ UNCHANGED crawlLocals
    /\ UNCHANGED paramVars
    /\ UNCHANGED <<summVars, dashVars, mainVars, textVars>>
    /\ UNCHANGED <<pdf_urls, futures, idx, files, successful_extractions, handling>>

DownloadNext ==
    \/ NoPdfLinks
    \/ SubmitDownloads
    \/ StartDownload
    \/ FinishDownload
    \/ HandleCompleted
    \/ ScrapeReturn

----------------------------------------------------------------------------
(* Model/summarization.py, Model/prompt_engg.py, Model/RAG_model.py.       *)
(* Texts and category names are sequences of characters.                   *)

MaxLines == 2          \* lines of a text the language model answers with
ShortLen == 2          \* length of a short line body
HeadlineMax == 80      \* headline[:80]

Cat_community_social ==
    <<"c", "o", "m", "m", "u", "n", "i", "t", "y", "_", "s", "o", "c", "i", "a", "l">>
Cat_infrastructure_news ==
    <<"i", "n", "f", "r", "a", "s", "t", "r", "u", "c", "t", "u", "r", "e", "_", "n", "e", "w", "s">>
Cat_cultural_events ==
    <<"c", "u", "l", "t", "u", "r", "a", "l", "_", "e", "v", "e", "n", "t", "s">>
Cat_health_education ==
    <<"h", "e", "a", "l", "t", "h", "_", "e", "d", "u", "c", "a", "t", "i", "o", "n">>
Cat_lifestyle_commerce ==
    <<"l", "i", "f", "e", "s", "t", "y", "l", "e", "_", "c", "o", "m", "m", "e", "r", "c", "e">>
Cat_classifieds_marketplace ==
    <<"c", "l", "a", "s", "s", "i", "f", "i", "e", "d", "s", "_", "m", "a", "r", "k", "e", "t", "p", "l", "a", "c", "e">>
Cat_obituaries_personal ==
    <<"o", "b", "i", "t", "u", "a", "r", "i", "e", "s", "_", "p", "e", "r", "s", "o", "n", "a", "l">>
Cat_general_weekly ==
    <<"g", "e", "n", "e", "r", "a", "l", "_", "w", "e", "e", "k", "l", "y">>
Cat_classified_marketplace ==
    <<"c", "l", "a", "s", "s", "i", "f", "i", "e", "d", "_", "m", "a", "r", "k", "e", "t", "p", "l", "a", "c", "e">>

\* the keys of category_queries, in insertion order
CategoryQueries ==
    <<Cat_community_social, Cat_infrastructure_news, Cat_cultural_events, Cat_health_education, Cat_lifestyle_commerce, Cat_classifieds_marketplace, Cat_obituaries_personal, Cat_general_weekly>>

\* the keys of the dict create_category_prompts returns, in insertion order
CategoryPrompts ==
    <<Cat_community_social, Cat_infrastructure_news, Cat_cultural_events, Cat_health_education, Cat_classified_marketplace, Cat_obituaries_personal, Cat_general_weekly>>

\* the keys of directory_paths, which become the keys of retrievers
Localities == <<"Adayar", "Mylapore">>

LowerAlpha == <<"a", "b", "c", "d", "e", "f", "g", "h", "i", "j", "k", "l", "m",
                "n", "o", "p", "q", "r", "s", "t", "u", "v", "w", "x", "y", "z">>
UpperAlpha == <<"A", "B", "C", "D", "E", "F", "G", "H", "I", "J", "K", "L", "M",
                "N", "O", "P", "Q", "R", "S", "T", "U", "V", "W", "X", "Y", "Z">>

IsLetter(c) == c \in Range(LowerAlpha) \cup Range(UpperAlpha)
Upper(c) == IF c \in Range(LowerAlpha)
            THEN UpperAlpha[CHOOSE i \in DOMAIN LowerAlpha : LowerAlpha[i] = c] ELSE c
Lower(c) == IF c \in Range(UpperAlpha)
            THEN LowerAlpha[CHOOSE i \in DOMAIN UpperAlpha : UpperAlpha[i] = c] ELSE c

\* str.replace('_', ' ')
ReplaceUnderscore(t) == [i \in DOMAIN t |-> IF t[i] = "_" THEN " " ELSE t[i]]

\* str.title(): a letter after a non-letter in upper case, the others in lower case
Title(t) == [i \in DOMAIN t |->
               IF i = 1 \/ ~IsLetter(t[i - 1]) THEN Upper(t[i]) ELSE Lower(t[i])]

IsSpace(c) == c \in {" ", "\n", "\t"}

\* str.strip(): the text between its first and its last character that is no space
RECURSIVE FirstNonSpace(_, _)
FirstNonSpace(t, i) ==
    IF i > Len(t) \/ ~IsSpace(t[i]) THEN i ELSE FirstNonSpace(t, i + 1)

RECURSIVE LastNonSpace(_, _)
LastNonSpace(t, i) ==
    IF i < 1 \/ ~IsSpace(t[i]) THEN i ELSE LastNonSpace(t, i - 1)

Strip(t) == SubSeq(t, FirstNonSpace(t, 1), LastNonSpace(t, Len(t)))

\* str.split('\n')
Split(t) ==
    LET nl == {i \in DOMAIN t : t[i] = "\n"}
        cut == nl \cup {0, Len(t) + 1}
        start(k) == CHOOSE i \in cut : Cardinality({j \in cut : j < i}) = k - 1
        stop(k) == CHOOSE i \in cut : Cardinality({j \in cut : j < i}) = k
    IN [k \in 1..(Cardinality(nl) + 1) |-> SubSeq(t, start(k) + 1, stop(k) - 1)]

\* str.startswith(prefix)
StartsWith(t, prefix) == Len(t) >= Len(prefix) /\ SubSeq(t, 1, Len(prefix)) = prefix

\* line 119: line.startswith(('1.', '2.', '3.', '-', '*'))
ListMarkers == {<<"1", ".">>, <<"2", ".">>, <<"3", ".">>, <<"-">>, <<"*">>}
IsListLine(line) == \E m \in ListMarkers : StartsWith(line, m)

\* lines 117-121: the first line that is not blank and is no list line, stripped
FirstHeadline(lines) ==
    LET ok == {k \in DOMAIN lines : Strip(lines[k]) # <<>> /\ ~IsListLine(lines[k])}
    IN IF ok = {} THEN <<>>
       ELSE Strip(lines[CHOOSE k \in ok : \A j \in ok : k <= j])

\* line 135: f"{category.replace('_', ' ').title()} Updates"
DefaultHeadline(category) ==
    Title(ReplaceUnderscore(category)) \o <<" ", "U", "p", "d", "a", "t", "e", "s">>

\* line 135: the headline of a normal entry
HeadlineNoDefault(headline, category) == SliceTo(headline, HeadlineMax)
HeadlineOf(headline, category) ==
    IF headline # <<>> THEN SliceTo(headline, HeadlineMax) ELSE DefaultHeadline(category)

\* lines 111-140: the entry made of the text a chain returned.  short_summary,
\* generated_at and query_used are left out: nothing here reads them.
SummaryObj(locality, category, summary_content) ==
    [locality |-> locality,
     category |-> category,
     headline |-> HeadlineOf(FirstHeadline(Split(Strip(summary_content))), category),
     detailed_content |-> summary_content]

ContentNotAvailable ==
    <<"C", "o", "n", "t", "e", "n", "t", " ", "N", "o", "t", " ",
      "A", "v", "a", "i", "l", "a", "b", "l", "e">>

\* lines 149-158: the entry made when the try block raised
ErrorObj(locality, category) ==
    [locality |-> locality,
     category |-> category,
     headline |-> ContentNotAvailable,
     detailed_content |-> <<>>,
     error |-> TRUE]

\* line 159: the except block appends the error entry and the loop goes on
OnErrorDrop(summaries, entry) == summaries
OnError(summaries, entry) == Append(summaries, entry)

\* create_rag_chains: one chain per locality of retrievers and category of prompts
CreateRagChains(retrievers, prompts) ==
    [k \in DOMAIN retrievers |-> [locality |-> retrievers[k], chains |-> Range(prompts)]]

\* the lines and texts the language model answers with in this model
X(n) == [i \in 1..n |-> "x"]

ModelLines ==
    { <<>>,
      <<" ">>,
      <<"1", ".">> \o X(ShortLen),
      <<"-">> \o X(ShortLen),
      <<" ", "-">> \o X(ShortLen),
      X(ShortLen),
      <<" ">> \o X(ShortLen) \o <<" ">>,
      X(HeadlineMax),
      X(HeadlineMax + 1),
      <<"*", " ">> \o X(HeadlineMax + 1),
      <<" ">> \o X(HeadlineMax) \o <<" ">> }

RECURSIVE JoinLines(_)
JoinLines(ls) ==
    IF ls = <<>> THEN <<>>
    ELSE IF Len(ls) = 1 THEN ls[1]
    ELSE ls[1] \o <<"\n">> \o JoinLines(Tail(ls))

ModelTexts == {JoinLines(ls) : ls \in UNION {[1..n -> ModelLines] : n \in 0..MaxLines}}

\* the texts a language model can answer with
Answers(model) ==
    IF model.kind = "any" THEN ModelTexts
    ELSE IF model.kind = "fixed" THEN {model.text}
    ELSE {}

SummIdle ==
    /\ s_pc = "idle"
    /\ rag_chains = <<>>
    /\ llm = [kind |-> "none"]
    /\ pos = 0
    /\ all_summaries = <<>>
    /\ outcomes = <<>>

\* RAG_model.py line 46 and summarization.py line 170: the chains of the program;
\* and chains made by create_rag_chains for one locality and one prompt, with a
\* language model that can answer with any text of ModelTexts
SummInit ==
    /\ s_pc = "loop"
    /\ \/ /\ \E n \in 0..Len(Localities) :
               rag_chains = CreateRagChains(SubSeq(Localities, 1, n), CategoryPrompts)
          /\ \E t \in {X(ShortLen), <<"-">> \o X(ShortLen)} :
               llm = [kind |-> "fixed", text |-> t]
       \/ /\ \E k \in DOMAIN CategoryPrompts :
               rag_chains = CreateRagChains(<<Localities[1]>>, <<CategoryPrompts[k]>>)
          /\ llm = [kind |-> "any"]
    /\ pos = 0
    /\ all_summaries = <<>>
    /\ outcomes = <<>>

NumPairs == Len(rag_chains) * Len(CategoryQueries)

\* the pair of the k-th iteration: for locality in rag_chains, for category in queries
LocalityAt(k) == rag_chains[((k - 1) \div Len(CategoryQueries)) + 1]
CategoryAt(k) == CategoryQueries[((k - 1) % Len(CategoryQueries)) + 1]

\* line 108 raises KeyError: the locality has no chain for the category
LookupFails ==
    /\ s_pc = "loop"
    /\ pos < NumPairs
    /\ CategoryAt(pos + 1) \notin LocalityAt(pos + 1).chains
    /\ all_summaries' = OnError(all_summaries,
                                ErrorObj(LocalityAt(pos + 1).locality, CategoryAt(pos + 1)))
    /\ outcomes' = Append(outcomes, "KeyError")
    /\ pos' = pos + 1
    /\ UNCHANGED <<s_pc, rag_chains, llm>>
    /\ UNCHANGED <<scraperVars, dashVars, mainVars, textVars>>

\* line 109 raises: the retriever or the language model failed
InvokeRaises ==
    /\ s_pc = "loop"
    /\ pos < NumPairs
    /\ CategoryAt(pos + 1) \in LocalityAt(pos + 1).chains
    /\ all_summaries' = OnError(all_summaries,
                                ErrorObj(LocalityAt(pos + 1).locality, CategoryAt(pos + 1)))
    /\ outcomes' = Append(outcomes, "raised")
    /\ pos' = pos + 1
    /\ UNCHANGED <<s_pc, rag_chains, llm>>
    /\ UNCHANGED <<scraperVars, dashVars, mainVars, textVars>>

\* lines 108-143: the chain answers and the entry is appended
InvokeReturns ==
    /\ s_pc = "loop"
    /\ pos < NumPairs
    /\ CategoryAt(pos + 1) \in LocalityAt(pos + 1).chains
    /\ \E summary_content \in Answers(llm) :
         all_summaries' = Append(all_summaries,
                                 SummaryObj(LocalityAt(pos + 1).locality,
                                            CategoryAt(pos + 1), summary_content))
    /\ outcomes' = Append(outcomes, "returned")
    /\ pos' = pos + 1
    /\ UNCHANGED <<s_pc, rag_chains, llm>>
    /\ UNCHANGED <<scraperVars, dashVars, mainVars, textVars>>

\* line 161
SummReturn ==
    /\ s_pc = "loop"
    /\ pos = NumPairs
    /\ s_pc' = "returned"
    /\ UNCHANGED <<rag_chains, llm, pos, all_summaries, outcomes>>
    /\ UNCHANGED <<scraperVars, dashVars, mainVars, textVars>>

SummNext == LookupFails \/ InvokeRaises \/ InvokeReturns \/ SummReturn

----------------------------------------------------------------------------
(* app.py, load_and_process_data.  A JSON value is <<"bool", b>>,          *)
(* <<"str", s>>, <<"num", n>> or <<"null">>; a JSON object is a function   *)
(* from its keys to values.  A cell of the DataFrame is the value of the   *)
(* key in the object of the row, or <<"nan">> where the object has no such *)
(* key.  Lines 143-147 change no row: they retype locality and category    *)
(* and add the column category_display.                                    *)

MaxRecords == 2        \* objects in the JSON list

ErrorValues == {<<"bool", TRUE>>, <<"bool", FALSE>>, <<"str", "true">>, <<"null">>,
                <<"num", 1>>}
HeadlineValues == {<<"str", "">>, <<"str", "h">>, <<"null">>}
ContentValues == {<<"str", "">>, <<"str", "d">>, <<"null">>}

\* the objects of the model: each of the three keys present or not
JsonObjects ==
    {[k \in ks |-> CASE k = "error" -> e [] k = "headline" -> h [] OTHER -> c] :
        ks \in SUBSET {"error", "headline", "detailed_content"},
        e \in ErrorValues, h \in HeadlineValues, c \in ContentValues}

\* pd.DataFrame(data): the columns are the keys of all objects
Columns(d) == UNION {DOMAIN d[k] : k \in DOMAIN d}
Cell(rec, col) == IF col \in DOMAIN rec THEN rec[col] ELSE <<"nan">>

\* Python ==: True equals 1; values of different types are not equal otherwise
PyEq(a, b) ==
    \/ a = b
    \/ a = <<"bool", TRUE>> /\ b = <<"num", 1>>
    \/ a = <<"num", 1>> /\ b = <<"bool", TRUE>>

\* line 127: (df['error'] != True) & (df['error'] != 'true')
KeepNotTrueOnly(cell) == ~PyEq(cell, <<"bool", TRUE>>)
KeepNoError(cell) == ~PyEq(cell, <<"bool", TRUE>>) /\ ~PyEq(cell, <<"str", "true">>)

\* pandas isna
IsNa(cell) == cell \in {<<"nan">>, <<"null">>}

\* line 137: astype(str).str.len() of a string is its length; "" alone has length 0
StrLenPositive(cell) == cell # <<"str", "">>

RequiredCols == {"headline", "detailed_content"}

\* lines 123-140: the indices of the rows of the DataFrame returned
KeptRows(d) ==
    LET afterError == IF "error" \in Columns(d)
                      THEN {k \in DOMAIN d : KeepNoError(Cell(d[k], "error"))}
                      ELSE DOMAIN d
        missing_cols == {c \in RequiredCols : c \notin Columns(d)}
        afterDropna == {k \in afterError : \A c \in RequiredCols : ~IsNa(Cell(d[k], c))}
    IN IF missing_cols # {} THEN {}
       ELSE {k \in afterDropna : StrLenPositive(Cell(d[k], "detailed_content"))}

\* the rows in the order of the list
RowsOf(d, keep) ==
    LET f[k \in 0..Len(d)] ==
          IF k = 0 THEN <<>>
          ELSE IF k \in keep THEN Append(f[k - 1], [idx |-> k, rec |-> d[k]])
          ELSE f[k - 1]
    IN f[Len(d)]

DashIdle ==
    /\ d_pc = "idle"
    /\ data = <<>>
    /\ table = <<>>

DashInit ==
    /\ d_pc = "start"
    /\ data \in UNION {[1..n -> JsonObjects] : n \in 0..MaxRecords}
    /\ table = <<>>

\* load_and_process_data, lines 118-149
LoadAndProcessData ==
    /\ d_pc = "start"
    /\ table' = RowsOf(data, KeptRows(data))
    /\ d_pc' = "loaded"
    /\ UNCHANGED data
    /\ UNCHANGED <<scraperVars, summVars, mainVars, textVars>>

DashNext == LoadAndProcessData

----------------------------------------------------------------------------
(* app.py, main: one run of the script for each rerun of the dashboard.    *)
(* st.session_state is a function of the keys it has; None is <<>> and an  *)
(* article that is selected is <<article>>.  The key of a widget is        *)
(* [key, n]: n is the number in f"article_{n}" and 0 for the other keys.   *)

MaxArticles == 8       \* rows of the DataFrame

ITEMS_PER_PAGE == 6

Key(name, n) == [key |-> name, n |-> n]
NoKey == Key("none", 0)

\* the text the user can type into "Search Headlines"
SearchQueries == {<<>>, <<"q">>}

\* the k-th row of the DataFrame of the model
Article(k) ==
    [locality |-> IF k % 2 = 1 THEN "Adayar" ELSE "Mylapore",
     category_display |-> IF k = 1 THEN "Cultural Events" ELSE "General Weekly",
     headline |-> IF k % 3 = 0 THEN <<"Q", "h">> ELSE <<"h">>,
     short_summary |-> <<"s">>]

ArticlesDf(n) == [k \in 1..n |-> Article(k)]

LowerSeq(t) == [i \in DOMAIN t |-> Lower(t[i])]

\* lines 231-237: str.contains(search_query, case=False) of headline or short_summary
SearchMask(a, q) ==
    \/ Contains(LowerSeq(q), LowerSeq(a.headline))
    \/ Contains(LowerSeq(q), LowerSeq(a.short_summary))

\* lines 229-243
ApplyFilters(df, f) ==
    SelectSeq(df, LAMBDA a : /\ (f[1] # <<>> => SearchMask(a, f[1]))
                             /\ (f[2] # <<>> => a.locality \in Range(f[2]))
                             /\ (f[3] # <<>> => a.category_display \in Range(f[3])))

\* line 248: max(1, -(-total_articles // ITEMS_PER_PAGE))
TotalPages(total) == Max(1, -((-total) \div ITEMS_PER_PAGE))

\* lines 250-251
ClampPage(page, total_pages) ==
    IF page >= total_pages THEN Max(0, total_pages - 1) ELSE page

Has(ss, key) == key \in DOMAIN ss
Put(ss, key, val) == [k \in DOMAIN ss \cup {key} |-> IF k = key THEN val ELSE ss[k]]
EmptyState == [k \in {} |-> 0]

\* lines 167-170
SessionInit(ss) ==
    LET s1 == IF Has(ss, "page") THEN ss ELSE Put(ss, "page", 0)
    IN IF Has(s1, "selected_article") THEN s1 ELSE Put(s1, "selected_article", <<>>)

\* lines 161-163
ResetPagination(ss) == Put(ss, "page", 0)

\* lines 221-226
FilterBlockNoRemember(ss, cur) ==
    IF ~Has(ss, "last_filters") THEN Put(ss, "last_filters", cur)
    ELSE IF ss["last_filters"] # cur
         THEN Put(ResetPagination(ss), "selected_article", <<>>)
         ELSE ss
FilterBlock(ss, cur) ==
    IF ~Has(ss, "last_filters") THEN Put(ss, "last_filters", cur)
    ELSE IF ss["last_filters"] # cur
         THEN Put(Put(ResetPagination(ss), "selected_article", <<>>), "last_filters", cur)
         ELSE ss

NoWidgets == [search_query |-> <<>>, localities |-> <<>>, categories |-> <<>>]
NoHist == [prev |-> <<>>, cur |-> <<>>, before |-> EmptyState]

MainIdle ==
    /\ m_pc = "idle"
    /\ session_state = EmptyState
    /\ widgets = NoWidgets
    /\ clicked = NoKey
    /\ articles_df = <<>>
    /\ cached = FALSE
    /\ current_filters = <<>>
    /\ buttons = {}
    /\ hist = NoHist

\* a new browser session: no key in st.session_state, the widgets at their defaults
MainInit ==
    /\ m_pc = "wait"
    /\ session_state = EmptyState
    /\ widgets = NoWidgets
    /\ clicked = NoKey
    /\ articles_df \in {ArticlesDf(n) : n \in 0..MaxArticles}
    /\ cached = FALSE
    /\ current_filters = <<>>
    /\ buttons = {}
    /\ hist = NoHist

\* the options of a multiselect: the values of the column
Options(col) == {articles_df[k][col] : k \in DOMAIN articles_df}

\* a click on an option of a multiselect: selected last, or deselected
Toggle(sel, o) ==
    IF o \in Range(sel) THEN SelectSeq(sel, LAMBDA x : x # o) ELSE Append(sel, o)

\* the script is run: the page is opened, or the user asks for a rerun
Rerun ==
    /\ m_pc = "wait"
    /\ m_pc' = "start"
    /\ clicked' = NoKey
    /\ UNCHANGED <<session_state, widgets, articles_df, cached, current_filters, buttons, hist>>
    /\ UNCHANGED <<scraperVars, summVars, dashVars, textVars>>

\* line 197: the user changes the text of the search box
TypeSearch ==
    /\ m_pc = "wait"
    /\ Key("search", 0) \in buttons
    /\ \E q \in SearchQueries \ {widgets.search_query} :
         widgets' = [widgets EXCEPT !.search_query = q]
    /\ m_pc' = "start"
    /\ clicked' = NoKey
    /\ UNCHANGED <<session_state, articles_df, cached, current_filters, buttons, hist>>
    /\ UNCHANGED <<scraperVars, summVars, dashVars, textVars>>

\* lines 204-209: the user selects or deselects a locality
SelectLocality ==
    /\ m_pc = "wait"
    /\ Key("locality_filter", 0) \in buttons
    /\ \E o \in Options("locality") :
         widgets' = [widgets EXCEPT !.localities = Toggle(@, o)]
    /\ m_pc' = "start"
    /\ clicked' = NoKey
    /\ UNCHANGED <<session_state, articles_df, cached, current_filters, buttons, hist>>
    /\ UNCHANGED <<scraperVars, summVars, dashVars, textVars>>

\* lines 212-217: the user selects or deselects a category
SelectCategory ==
    /\ m_pc = "wait"
    /\ Key("category_filter", 0) \in buttons
    /\ \E o \in Options("category_display") :
         widgets' = [widgets EXCEPT !.categories = Toggle(@, o)]
    /\ m_pc' = "start"
    /\ clicked' = NoKey
    /\ UNCHANGED <<session_state, articles_df, cached, current_filters, buttons, hist>>
    /\ UNCHANGED <<scraperVars, summVars, dashVars, textVars>>

\* the user clicks a button the last run rendered
ClickButton ==
    /\ m_pc = "wait"
    /\ \E b \in buttons :
         /\ b.key \in {"article", "close_article", "prev_page", "next_page"}
         /\ clicked' = b
    /\ m_pc' = "start"
    /\ UNCHANGED <<session_state, widgets, articles_df, cached, current_filters, buttons, hist>>
    /\ UNCHANGED <<scraperVars, summVars, dashVars, textVars>>

\* history: the triple of the last run that reached line 220
HistAtEnd == [prev |-> IF hist.cur # <<>> THEN hist.cur ELSE hist.prev,
              cur |-> <<>>, before |-> EmptyState]

\* the run ends: the widgets it rendered are the ones the user can act on
EndOfRun(rendered) ==
    /\ m_pc' = "wait"
    /\ clicked' = NoKey
    /\ buttons' = rendered
    /\ hist' = HistAtEnd

\* lines 166-187: load_and_process_data raises, st.error, return
LoadRaises ==
    /\ m_pc = "start"
    /\ ~cached
    /\ session_state' = SessionInit(session_state)
    /\ EndOfRun({})
    /\ UNCHANGED <<widgets, articles_df, cached, current_filters>>
    /\ UNCHANGED <<scraperVars, summVars, dashVars, textVars>>

\* lines 166-191: the DataFrame is empty, st.warning, return
NoValidArticles ==
    /\ m_pc = "start"
    /\ articles_df = <<>>
    /\ session_state' = SessionInit(session_state)
    /\ cached' = TRUE
    /\ EndOfRun({})
    /\ UNCHANGED <<widgets, articles_df, current_filters>>
    /\ UNCHANGED <<scraperVars, summVars, dashVars, textVars>>

SidebarKeys == {Key("search", 0), Key("locality_filter", 0), Key("category_filter", 0)}

\* lines 166-217: the data is loaded and the sidebar widgets give their values
Sidebar ==
    /\ m_pc = "start"
    /\ articles_df # <<>>
    /\ session_state' = SessionInit(session_state)
    /\ cached' = TRUE
    /\ m_pc' = "filters"
    /\ UNCHANGED <<widgets, clicked, articles_df, current_filters, buttons, hist>>
    /\ UNCHANGED <<scraperVars, summVars, dashVars, textVars>>

\* lines 219-226
CheckFilters ==
    /\ m_pc = "filters"
    /\ LET cur == <<widgets.search_query, widgets.localities, widgets.categories>>
       IN /\ current_filters' = cur
          /\ session_state' = FilterBlock(session_state, cur)
          /\ hist' = [prev |-> hist.prev, cur |-> <<cur>>, before |-> session_state]
    /\ m_pc' = "paginate"
    /\ UNCHANGED <<widgets, clicked, articles_df, cached, buttons>>
    /\ UNCHANGED <<scraperVars, summVars, dashVars, textVars>>

filtered_df == ApplyFilters(articles_df, current_filters)
total_articles == Len(filtered_df)
total_pages == TotalPages(total_articles)

\* lines 228-259: no article matches the filters, st.info, return
NoMatch ==
    /\ m_pc = "paginate"
    /\ total_articles = 0
    /\ session_state' = Put(session_state, "page",
                            ClampPage(session_state["page"], total_pages))
    /\ EndOfRun(SidebarKeys)
    /\ UNCHANGED <<widgets, articles_df, cached, current_filters>>
    /\ UNCHANGED <<scraperVars, summVars, dashVars, textVars>>

\* lines 228-255
Paginate ==
    /\ m_pc = "paginate"
    /\ total_articles # 0
    /\ session_state' = Put(session_state, "page",
                            ClampPage(session_state["page"], total_pages))
    /\ m_pc' = "render"
    /\ UNCHANGED <<widgets, clicked, articles_df, cached, current_filters, buttons, hist>>
    /\ UNCHANGED <<scraperVars, summVars, dashVars, textVars>>

start_idx == session_state["page"] * ITEMS_PER_PAGE
end_idx == Min(start_idx + ITEMS_PER_PAGE, total_articles)

\* line 295: the keys of the buttons of the cards of the page
CardKeys == {Key("article", start_idx + i) : i \in 0..(end_idx - start_idx - 1)}

\* st.rerun(): the run stops and the script is run again
StRerun ==
    /\ m_pc' = "start"
    /\ clicked' = NoKey
    /\ hist' = HistAtEnd
    /\ UNCHANGED <<widgets, articles_df, cached, current_filters, buttons>>
    /\ UNCHANGED <<scraperVars, summVars, dashVars, textVars>>

\* lines 295-297
ReadArticle ==
    /\ m_pc = "render"
    /\ clicked \in CardKeys
    /\ session_state' = Put(session_state, "selected_article", <<filtered_df[clicked.n + 1]>>)
    /\ StRerun

\* lines 333-335
CloseArticle ==
    /\ m_pc = "render"
    /\ session_state["selected_article"] # <<>>
    /\ clicked = Key("close_article", 0)
    /\ session_state' = Put(session_state, "selected_article", <<>>)
    /\ StRerun

\* lines 342-346
PreviousPage ==
    /\ m_pc = "render"
    /\ total_pages > 1
    /\ session_state["page"] > 0
    /\ clicked = Key("prev_page", 0)
    /\ session_state' = Put(Put(session_state, "page", session_state["page"] - 1),
                            "selected_article", <<>>)
    /\ StRerun

\* lines 348-352
NextPage ==
    /\ m_pc = "render"
    /\ total_pages > 1
    /\ session_state["page"] < total_pages - 1
    /\ clicked = Key("next_page", 0)
    /\ session_state' = Put(Put(session_state, "page", session_state["page"] + 1),
                            "selected_article", <<>>)
    /\ StRerun

\* the buttons of a run that reaches its last line
RenderedKeys ==
    SidebarKeys \cup CardKeys
    \cup (IF session_state["selected_article"] # <<>> THEN {Key("close_article", 0)} ELSE {})
    \cup (IF total_pages > 1 /\ session_state["page"] > 0
          THEN {Key("prev_page", 0)} ELSE {})
    \cup (IF total_pages > 1 /\ session_state["page"] < total_pages - 1
          THEN {Key("next_page", 0)} ELSE {})

\* lines 261-365: no button of the run was clicked; the run reaches its last line
Render ==
    /\ m_pc = "render"
    /\ clicked \notin RenderedKeys
    /\ EndOfRun(RenderedKeys)
    /\ UNCHANGED <<session_state, widgets, articles_df, cached, current_filters>>
    /\ UNCHANGED <<scraperVars, summVars, dashVars, textVars>>

MainNext ==
    \/ Rerun
    \/ TypeSearch
    \/ SelectLocality
    \/ SelectCategory
    \/ ClickButton
    \/ LoadRaises
    \/ NoValidArticles
    \/ Sidebar
    \/ CheckFilters
    \/ NoMatch
    \/ Paginate
    \/ ReadArticle
    \/ CloseArticle
    \/ PreviousPage
    \/ NextPage
    \/ Render

----------------------------------------------------------------------------
(* Scrapper/RAG_Scrapper.py, _normalize_text.  A text is a sequence of     *)
(* characters.                                                              *)

MaxNormLines == 3      \* lines of the text given to _normalize_text

HeaderMax == 20        \* len(line) < 20

Digits == {"0", "1", "2", "3", "4", "5", "6", "7", "8", "9"}

\* \w
IsWordChar(c) == IsLetter(c) \/ c \in Digits \/ c = "_"

\* the last position of the run of word characters that holds position i
RECURSIVE WordRunEnd(_, _)
WordRunEnd(t, i) ==
    IF i + 1 <= Len(t) /\ IsWordChar(t[i + 1]) THEN WordRunEnd(t, i + 1) ELSE i

\* line 57: (\w+)-\n(\w+) matches from position i on.  \w+ takes the whole run:
\* a shorter run is followed by a word character, not by '-'
HyphenMatch(t, i) ==
    /\ IsWordChar(t[i])
    /\ LET e == WordRunEnd(t, i)
       IN /\ e + 3 <= Len(t)
          /\ t[e + 1] = "-"
          /\ t[e + 2] = "\n"
          /\ IsWordChar(t[e + 3])

\* line 57: re.sub(r'(\w+)-\n(\w+)', r'\1\2', text), the text from position i on;
\* the search for the next match starts behind the last one
RECURSIVE JoinHyphenated(_, _)
JoinHyphenated(t, i) ==
    IF i > Len(t) THEN <<>>
    ELSE IF HyphenMatch(t, i)
         THEN LET e == WordRunEnd(t, i)
                  f == WordRunEnd(t, e + 3)
              IN SubSeq(t, i, e) \o SubSeq(t, e + 3, f) \o JoinHyphenated(t, f + 1)
         ELSE <<t[i]>> \o JoinHyphenated(t, i + 1)

\* str.isupper(): a cased character, and no lower case one
IsUpperStr(t) ==
    /\ \E i \in DOMAIN t : t[i] \in Range(UpperAlpha)
    /\ \A i \in DOMAIN t : t[i] \notin Range(LowerAlpha)

\* line 73: the k-th line, stripped, is a header or a title
IsHeader(lines, k, line) ==
    /\ Len(line) < HeaderMax
    /\ \/ IsUpperStr(line)
       \/ /\ IsUpperStr(SubSeq(line, 1, 1))
          /\ k > 1
          /\ Strip(lines[k - 1]) = <<>>

\* line 80: re.search(r'[.!?:;"\']$', line)
EndsWithPunct(line) ==
    Len(line) > 0 /\ line[Len(line)] \in {".", "!", "?", ":", ";", "\"", "'"}

Flush(out, buffer) == IF buffer # <<>> THEN Append(out, buffer) ELSE out

\* lines 63-89: normalized_lines, from the k-th line on
RECURSIVE NormalizeLines(_, _, _, _)
NormalizeLines(lines, k, buffer, out) ==
    IF k > Len(lines) THEN Flush(out, buffer)
    ELSE LET line == Strip(lines[k])
         IN IF line = <<>>
            THEN NormalizeLines(lines, k + 1, <<>>, Append(Flush(out, buffer), <<>>))
            ELSE IF IsHeader(lines, k, line)
            THEN NormalizeLines(lines, k + 1, <<>>, Append(Flush(out, buffer), line))
            ELSE LET joined == IF buffer # <<>> THEN buffer \o <<" ">> \o line ELSE line
                 IN IF EndsWithPunct(line)
                    THEN NormalizeLines(lines, k + 1, <<>>, Append(out, joined))
                    ELSE NormalizeLines(lines, k + 1, joined, out)

\* sep.join(parts)
RECURSIVE JoinWith(_, _)
JoinWith(parts, sep) ==
    IF parts = <<>> THEN <<>>
    ELSE IF Len(parts) = 1 THEN parts[1]
    ELSE parts[1] \o sep \o JoinWith(Tail(parts), sep)

\* lines 95-104: paragraph_chunks
ParagraphPerLine(normalized_lines, current_paragraph, chunks) ==
    SelectSeq(normalized_lines, LAMBDA l : l # <<>>)
RECURSIVE Paragraphs(_, _, _)
Paragraphs(normalized_lines, current_paragraph, chunks) ==
    LET close == IF current_paragraph # <<>>
                 THEN Append(chunks, JoinWith(current_paragraph, <<" ">>))
                 ELSE chunks
    IN IF normalized_lines = <<>> THEN close
       ELSE IF Head(normalized_lines) = <<>>
       THEN Paragraphs(Tail(normalized_lines), <<>>, close)
       ELSE Paragraphs(Tail(normalized_lines),
                       Append(current_paragraph, Head(normalized_lines)), chunks)

\* line 107: re.sub(r' +', ' ', result)
RECURSIVE CollapseSpaces(_)
CollapseSpaces(t) ==
    IF Len(t) <= 1 THEN t
    ELSE IF t[1] = " " /\ t[2] = " " THEN CollapseSpaces(Tail(t))
    ELSE <<t[1]>> \o CollapseSpaces(Tail(t))

\* line 108: re.sub(r'\n{3,}', '\n\n', result)
RECURSIVE CollapseNewlines(_)
CollapseNewlines(t) ==
    IF Len(t) <= 2 THEN t
    ELSE IF t[1] = "\n" /\ t[2] = "\n" /\ t[3] = "\n" THEN CollapseNewlines(Tail(t))
    ELSE <<t[1]>> \o CollapseNewlines(Tail(t))

\* lines 59-110
Reassembled(t) ==
    LET normalized_lines == NormalizeLines(Split(t), 1, <<>>, <<>>)
        paragraph_chunks == Paragraphs(normalized_lines, <<>>, <<>>)
    IN CollapseNewlines(CollapseSpaces(JoinWith(paragraph_chunks, <<"\n", "\n">>)))

\* the lines of the texts of the model
NormLines ==
    { <<>>,
      <<" ">>,
      <<"a">>,
      <<"a", "-">>,
      <<" ", "a", " ">>,
      <<"a", " ", " ", "b">>,
      <<"a", ".">>,
      <<"A">>,
      <<"A", "b">>,
      [i \in 1..HeaderMax |-> "A"] }

NormTexts == {JoinLines(ls) : ls \in UNION {[1..n -> NormLines] : n \in 0..MaxNormLines}}

TextIdle ==
    /\ t_pc = "idle"
    /\ arg = <<>>
    /\ t_text = <<>>
    /\ result = <<>>

NormalizeInit ==
    /\ t_pc = "normalize"
    /\ arg \in NormTexts
    /\ t_text = arg
    /\ result = <<>>

\* lines 53-54
EmptyText ==
    /\ t_pc = "normalize"
    /\ t_text = <<>>
    /\ result' = <<>>
    /\ t_pc' = "done"
    /\ UNCHANGED <<arg, t_text>>
    /\ UNCHANGED <<scraperVars, summVars, dashVars, mainVars>>

\* lines 56-57
JoinHyphenatedWords ==
    /\ t_pc = "normalize"
    /\ t_text # <<>>
    /\ t_text' = JoinHyphenated(t_text, 1)
    /\ t_pc' = "joined"
    /\ UNCHANGED <<arg, result>>
    /\ UNCHANGED <<scraperVars, summVars, dashVars, mainVars>>

\* lines 59-110
Reassemble ==
    /\ t_pc = "joined"
    /\ result' = Reassembled(t_text)
    /\ t_pc' = "done"
    /\ UNCHANGED <<arg, t_text>>
    /\ UNCHANGED <<scraperVars, summVars, dashVars, mainVars>>

NormalizeNext == EmptyText \/ JoinHyphenatedWords \/ Reassemble

----------------------------------------------------------------------------
(* Scrapper/RAG_Scrapper.py, _filter_content.  Lines 115-118: no text of   *)
(* the model has a 'p', a 'w', a '@' or a '©', so that 'Page \d+ of \d+',  *)
(* 'Copyright ...', 'www\. ...' and the e-mail pattern match nowhere; the  *)
(* patterns of lines 119-121 are computed.                                 *)

MaxFilterLines == 3    \* lines of the text given to _filter_content

ShortLineWords == 2    \* len(line.split()) <= 2
ShortLineLen == 15     \* len(line) < 15
MinGroups == 2         \* {2,5}
MaxGroups == 5

\* [\s-]
IsSep(c) == IsSpace(c) \/ c = "-"

\* d digits from position i on
DigitsAt(t, i, d) == i + d - 1 <= Len(t) /\ \A j \in i..(i + d - 1) : t[j] \in Digits

\* line 119, (?:\d{2,4}[\s-]?){2,5} from position i on, count groups matched
\* before: the position behind the match, 0 for no match.  A group takes four
\* digits before three before two, and a separator before none.
RECURSIVE MatchGroups(_, _, _)
MatchGroups(t, i, count) ==
    LET try(d, sep) ==
            IF /\ count < MaxGroups
               /\ DigitsAt(t, i, d)
               /\ (sep = 1 => i + d <= Len(t) /\ IsSep(t[i + d]))
            THEN MatchGroups(t, i + d + sep, count + 1)
            ELSE 0
        r41 == try(4, 1)
        r40 == try(4, 0)
        r31 == try(3, 1)
        r30 == try(3, 0)
        r21 == try(2, 1)
        r20 == try(2, 0)
    IN IF r41 # 0 THEN r41
       ELSE IF r40 # 0 THEN r40
       ELSE IF r31 # 0 THEN r31
       ELSE IF r30 # 0 THEN r30
       ELSE IF r21 # 0 THEN r21
       ELSE IF r20 # 0 THEN r20
       ELSE IF count >= MinGroups THEN i
       ELSE 0

\* line 119, (?:(?:\+|00)[1-9]\d{1,2}[\s-]?)? and the groups, from position i on:
\* the position behind the match, 0 for no match.  The prefix is tried before
\* no prefix, two digits before one, a separator before none.
PhoneMatch(t, i) ==
    LET j == IF t[i] = "+" THEN i + 1
             ELSE IF i + 1 <= Len(t) /\ t[i] = "0" /\ t[i + 1] = "0" THEN i + 2
             ELSE 0
        lead == j # 0 /\ j <= Len(t) /\ t[j] \in Digits \ {"0"}
        pre(d, sep) ==
            IF /\ lead
               /\ DigitsAt(t, j + 1, d)
               /\ (sep = 1 => j + 1 + d <= Len(t) /\ IsSep(t[j + 1 + d]))
            THEN MatchGroups(t, j + 1 + d + sep, 0)
            ELSE 0
        p21 == pre(2, 1)
        p20 == pre(2, 0)
        p11 == pre(1, 1)
        p10 == pre(1, 0)
    IN IF p21 # 0 THEN p21
       ELSE IF p20 # 0 THEN p20
       ELSE IF p11 # 0 THEN p11
       ELSE IF p10 # 0 THEN p10
       ELSE MatchGroups(t, i, 0)

\* line 119: re.sub(pattern, '', text), the text from position i on
RECURSIVE RemovePhones(_, _)
RemovePhones(t, i) ==
    IF i > Len(t) THEN <<>>
    ELSE IF PhoneMatch(t, i) # 0 THEN RemovePhones(t, PhoneMatch(t, i))
    ELSE <<t[i]>> \o RemovePhones(t, i + 1)

ADVERTISEMENT == <<"A", "D", "V", "E", "R", "T", "I", "S", "E", "M", "E", "N", "T">>
CLASSIFIEDS == <<"C", "L", "A", "S", "S", "I", "F", "I", "E", "D", "S">>

\* lines 120-121: re.sub(word, '', text, flags=re.IGNORECASE), the text from i on
RECURSIVE RemoveWord(_, _, _)
RemoveWord(t, word, i) ==
    IF i > Len(t) THEN <<>>
    ELSE IF /\ i + Len(word) - 1 <= Len(t)
            /\ LowerSeq(SubSeq(t, i, i + Len(word) - 1)) = LowerSeq(word)
         THEN RemoveWord(t, word, i + Len(word))
         ELSE <<t[i]>> \o RemoveWord(t, word, i + 1)

\* lines 124-125: the patterns, one after the other
RemovePatterns(t) ==
    RemoveWord(RemoveWord(RemovePhones(t, 1), ADVERTISEMENT, 1), CLASSIFIEDS, 1)

\* len(line.split()): the runs of characters that are no whitespace
WordCount(line) ==
    Cardinality({i \in DOMAIN line : ~IsSpace(line[i]) /\ (i = 1 \/ IsSpace(line[i - 1]))})

\* line 136
IsBoilerplateEither(line) == WordCount(line) <= ShortLineWords \/ Len(line) < ShortLineLen
IsBoilerplate(line) == WordCount(line) <= ShortLineWords /\ Len(line) < ShortLineLen

\* lines 130-139: filtered_lines
RECURSIVE FilteredLines(_, _)
FilteredLines(lines, filtered_lines) ==
    IF lines = <<>> THEN filtered_lines
    ELSE LET line == Strip(Head(lines))
         IN IF line = <<>> THEN FilteredLines(Tail(lines), Append(filtered_lines, <<>>))
            ELSE IF IsBoilerplate(line) THEN FilteredLines(Tail(lines), filtered_lines)
            ELSE FilteredLines(Tail(lines), Append(filtered_lines, line))

\* the lines of the texts of the model
FilterLines ==
    { <<>>,
      <<" ">>,
      <<"a">>,
      <<"a", " ", "b", " ", "c">>,
      <<" ", "a", " ", "b", " ">>,
      X(ShortLineLen),
      X(ShortLineLen - 1),
      <<"1", "2", " ", "3", "4">>,
      <<"a", " ", "0", "0", "1", "2", "3", "4">>,
      <<"A", "d", "v", "e", "r", "t", "i", "s", "e", "m", "e", "n", "t">>,
      <<"a", " ", "b", " ">> \o CLASSIFIEDS }

FilterTexts == {JoinLines(ls) : ls \in UNION {[1..n -> FilterLines] : n \in 0..MaxFilterLines}}

FilterInit ==
    /\ t_pc = "filter"
    /\ arg \in FilterTexts
    /\ t_text = arg
    /\ result = <<>>

\* lines 114-125
FilterPatterns ==
    /\ t_pc = "filter"
    /\ t_text' = RemovePatterns(t_text)
    /\ t_pc' = "cleaned"
    /\ UNCHANGED <<arg, result>>
    /\ UNCHANGED <<scraperVars, summVars, dashVars, mainVars>>

\* lines 127-141
FilterShortLines ==
    /\ t_pc = "cleaned"
    /\ result' = JoinLines(FilteredLines(Split(t_text), <<>>))
    /\ t_pc' = "done"
    /\ UNCHANGED <<arg, t_text>>
    /\ UNCHANGED <<scraperVars, summVars, dashVars, mainVars>>

FilterNext == FilterPatterns \/ FilterShortLines

----------------------------------------------------------------------------
(* app.py, truncate_text *)

MaxTruncLen == 4       \* length of the text given to truncate_text
MaxLengthArg == 5      \* max_length is drawn from 0..MaxLengthArg

\* lines 157-159
TruncateText(t, max_length) ==
    IF Len(t) <= max_length THEN t ELSE SliceTo(t, max_length) \o <<".", ".", ".">>

TruncInit ==
    /\ t_pc = "truncate"
    /\ arg \in [text : UNION {[1..n -> {"a", "b"}] : n \in 0..MaxTruncLen},
                max_length : 0..MaxLengthArg]
    /\ t_text = <<>>
    /\ result = <<>>

\* truncate_text(text, max_length)
TruncateTextCall ==
    /\ t_pc = "truncate"
    /\ result' = TruncateText(arg.text, arg.max_length)
    /\ t_pc' = "done"
    /\ UNCHANGED <<arg, t_text>>
    /\ UNCHANGED <<scraperVars, summVars, dashVars, mainVars>>

TruncNext == TruncateTextCall

----------------------------------------------------------------------------
(* Scrapper/RAG_Scrapper.py, _get_website_folder_name and                  *)
(* _create_output_directory, and the directories Model/txt_procc.py loads. *)
(* A directory is its path below the working directory of the process.     *)

\* lines 328-331: the websites of __main__
websites ==
    << <<"h", "t", "t", "p", "s", ":", "/", "/", "a", "d", "y", "a", "r", "t", "i", "m", "e",
      "s", ".", "i", "n", "/", "e", "p", "a", "p", "e", "r", "/">>,
       <<"h", "t", "t", "p", "s", ":", "/", "/", "w", "w", "w", ".", "m", "y", "l", "a", "p",
         "o", "r", "e", "t", "i", "m", "e", "s", ".", "c", "o", "m", "/", "m", "t", "-", "e",
         "p", "a", "p", "e", "r", "/">> >>

\* txt_procc.py, lines 38-41
directory_paths ==
    [Adayar |-> <<"s", "c", "r", "a", "p", "e", "d", "_", "c", "o", "n", "t", "e", "n", "t", "/", "a",
            "d", "y", "a", "r", "t", "i", "m", "e", "s", "_", "i", "n">>,
     Mylapore |-> <<"s", "c", "r", "a", "p", "e", "d", "_", "c", "o", "n", "t", "e", "n", "t", "/", "m",
            "y", "l", "a", "p", "o", "r", "e", "t", "i", "m", "e", "s", "_", "c", "o", "m">>]

\* the parts of the urls of the model: scheme, host and path
UrlSchemes == {<<"h", "t", "t", "p", "s", ":", "/", "/">>, <<"h", "t", "t", "p", ":", "/", "/">>, <<>>}

UrlHosts ==
    { <<"a", "d", "y", "a", "r", "t", "i", "m", "e", "s", ".", "i", "n">>,
      <<"w", "w", "w", ".", "a", "d", "y", "a", "r", "t", "i", "m", "e", "s", ".", "i", "n">>,
      <<"w", "w", "w", ".", "m", "y", "l", "a", "p", "o", "r", "e", "t", "i", "m", "e", "s",
      ".", "c", "o", "m">>,
      <<"m", "y", "l", "a", "p", "o", "r", "e", "t", "i", "m", "e", "s", ".", "c", "o", "m">>,
      <<"a", "-", "b", ".", "c", "o", ":", "8", "0">>,
      <<"u", "@", "a", "_", "b", ".", "i", "n">>,
      <<"w", "w", "w", ".", "w", "w", "w", ".", "i", "n">>,
      <<"a", "w", "w", "w", ".", "b", ".", "i", "n">>,
      <<"W", "W", "W", ".", "B", ".", "i", "n">> }

UrlPaths ==
    { <<>>,
      <<"/">>,
      <<"/", "e", "p", "a", "p", "e", "r", "/">>,
      <<"/", "m", "t", "-", "e", "p", "a", "p", "e", "r", "/">>,
      <<"?", "q", "=", "/", "x">> }

WebsiteUrls == {s \o h \o p : s \in UrlSchemes, h \in UrlHosts, p \in UrlPaths}

\* the characters of a scheme
IsSchemeChar(c) == IsLetter(c) \/ c \in Digits \/ c \in {"+", "-", "."}

\* line 40, urlparse(url).netloc: behind the scheme and "//", up to the first
\* '/', '?' or '#'; empty for a url without "//" at that place
Netloc(url) ==
    LET colons == {i \in DOMAIN url : url[i] = ":"}
        c == IF colons = {} THEN 0 ELSE CHOOSE i \in colons : \A j \in colons : i <= j
        hasScheme == c > 1 /\ IsLetter(url[1]) /\ \A j \in 1..(c - 1) : IsSchemeChar(url[j])
        rest == IF hasScheme THEN SubSeq(url, c + 1, Len(url)) ELSE url
        ends == {i \in 3..Len(rest) : rest[i] \in {"/", "?", "#"}}
        stop == IF ends = {} THEN Len(rest) + 1 ELSE CHOOSE i \in ends : \A j \in ends : i <= j
    IN IF Len(rest) >= 2 /\ rest[1] = "/" /\ rest[2] = "/"
       THEN SubSeq(rest, 3, stop - 1)
       ELSE <<>>

\* line 41: netloc.replace('www.', '')
KeepWww(t) == t
RECURSIVE RemoveWww(_)
RemoveWww(t) ==
    IF Len(t) < 4 THEN t
    ELSE IF SubSeq(t, 1, 4) = <<"w", "w", "w", ".">> THEN RemoveWww(SubSeq(t, 5, Len(t)))
    ELSE <<t[1]>> \o RemoveWww(Tail(t))

\* line 42: re.sub(r'[^\w\-_]', '_', domain)
Sanitize(domain) ==
    [i \in DOMAIN domain |->
        IF IsWordChar(domain[i]) \/ domain[i] = "-" THEN domain[i] ELSE "_"]

\* lines 38-42
GetWebsiteFolderName(url) == Sanitize(RemoveWww(Netloc(url)))

\* line 47: Path.cwd() / "scraped_content" / folder_name
OutputDir(folder_name) ==
    <<"s", "c", "r", "a", "p", "e", "d", "_", "c", "o", "n", "t", "e", "n", "t", "/">> \o folder_name

FolderInit ==
    /\ t_pc = "folder"
    /\ arg \in WebsiteUrls
    /\ t_text = <<>>
    /\ result = <<>>

\* lines 38-42 and 46
FolderName ==
    /\ t_pc = "folder"
    /\ t_text' = GetWebsiteFolderName(arg)
    /\ t_pc' = "named"
    /\ UNCHANGED <<arg, result>>
    /\ UNCHANGED <<scraperVars, summVars, dashVars, mainVars>>

\* lines 47-49
CreateOutputDirectory ==
    /\ t_pc = "named"
    /\ result' = OutputDir(t_text)
    /\ t_pc' = "done"
    /\ UNCHANGED <<arg, t_text>>
    /\ UNCHANGED <<scraperVars, summVars, dashVars, mainVars>>

FolderNext == FolderName \/ CreateOutputDirectory

----------------------------------------------------------------------------
(* The specifications *)

ScraperIdle ==
    /\ pc = "idle"
    /\ max_depth = 0
    /\ num_pdfs = 0
    /\ workers = 1
    /\ queue = <<>>
    /\ visited = {}
    /\ pdf_links = <<>>
    /\ seen_pdfs = {}
    /\ fetched = <<>>
    /\ enq = {}
    /\ nfetch = 0
    /\ last = [kind |-> "none", url |-> <<>>, depth |-> 0, wasVisited |-> FALSE,
               gets |-> 0, order |-> <<>>, before |-> <<>>]
    /\ pdf_urls = <<>>
    /\ futures = <<>>
    /\ idx = 0
    /\ files = {}
    /\ successful_extractions = 0
    /\ handling = <<>>
    /\ ret = "running"

Init == ScraperInit /\ SummIdle /\ DashIdle /\ MainIdle /\ TextIdle

Next == CrawlNext \/ DownloadNext

\* scrape_newspaper_website
Spec == Init /\ [][Next]_vars

InitSumm == ScraperIdle /\ SummInit /\ DashIdle /\ MainIdle /\ TextIdle

\* generate_category_summaries
SpecSumm == InitSumm /\ [][SummNext]_vars

InitDash == ScraperIdle /\ SummIdle /\ DashInit /\ MainIdle /\ TextIdle

\* load_and_process_data
SpecDash == InitDash /\ [][DashNext]_vars

InitMain == ScraperIdle /\ SummIdle /\ DashIdle /\ MainInit /\ TextIdle

\* main, rerun after rerun
SpecMain == InitMain /\ [][MainNext]_vars

InitNormalize == ScraperIdle /\ SummIdle /\ DashIdle /\ MainIdle /\ NormalizeInit

\* _normalize_text
SpecNormalize == InitNormalize /\ [][NormalizeNext]_vars

InitFilter == ScraperIdle /\ SummIdle /\ DashIdle /\ MainIdle /\ FilterInit

\* _filter_content
SpecFilter == InitFilter /\ [][FilterNext]_vars

InitTrunc == ScraperIdle /\ SummIdle /\ DashIdle /\ MainIdle /\ TruncInit

\* truncate_text
SpecTrunc == InitTrunc /\ [][TruncNext]_vars

InitFolder == ScraperIdle /\ SummIdle /\ DashIdle /\ MainIdle /\ FolderInit

\* _create_output_directory
SpecFolder == InitFolder /\ [][FolderNext]_vars

----------------------------------------------------------------------------
(* Properties of the crawl and of the downloads *)

NoDuplicates(q) == \A j, k \in DOMAIN q : j # k => q[j] # q[k]

\* the followed links: an edge for each queue.append
Edges == {<<e.from, e.link>> : e \in enq}

\* the urls within n followed links of base_url
RECURSIVE Within(_)
Within(n) ==
    IF n = 0 THEN {base_url}
    ELSE Within(n - 1) \cup {e[2] : e \in {d \in Edges : d[1] \in Within(n - 1)}}

\* the shortest followed-link distance of a url that some path reaches
Distance(u) == CHOOSE n \in 0..Cardinality(Hrefs) :
                   /\ u \in Within(n)
                   /\ \A m \in 0..(n - 1) : u \notin Within(m)

\* C1: every page processed has a depth of at most max_depth, base_url has
\* depth 0, a queued link is one level below the page it was found on, and
\* no link of a page at depth max_depth is ever put on the queue
C1_DepthBound ==
    /\ \A k \in DOMAIN fetched : fetched[k].depth >= 0 /\ fetched[k].depth <= max_depth
    /\ (fetched # <<>> => fetched[1] = [url |-> base_url, depth |-> 0])
    /\ \A e \in enq : e.depth = e.fromDepth + 1 /\ e.fromDepth < max_depth
    /\ \A k \in DOMAIN queue :
         \/ queue[k] = <<base_url, 0>>
         \/ /\ queue[k][2] <= max_depth
            /\ \E e \in enq : e.link = queue[k][1] /\ e.depth = queue[k][2]

\* a page at depth max_depth = 2 was scanned for pdf links and not expanded
C1_Witness ==
    /\ max_depth = 2
    /\ Len(fetched) = 3
    /\ last.kind = "process" /\ last.depth = 2 /\ last.gets = 1
    /\ queue = <<>>

\* C2: the returned list has at most num_pdfs urls, none twice, and is the
\* first num_pdfs of the distinct pdf links in the order the scan met them;
\* at most num_pdfs downloads are submitted and at most num_pdfs files written
NewInOrder(order, before) == SelectSeq(order, LAMBDA l : l \notin Range(before))

C2_LinkCountBound ==
    /\ NoDuplicates(pdf_links)
    /\ seen_pdfs = Range(pdf_links)
    /\ (last.kind = "process" =>
          pdf_links = last.before \o NewInOrder(last.order, last.before))
    /\ (pc = "discovered" =>
          /\ Len(pdf_urls) = Min(num_pdfs, Len(pdf_links))
          /\ \A k \in DOMAIN pdf_urls : pdf_urls[k] = pdf_links[k])
    /\ Len(pdf_urls) <= num_pdfs
    /\ NoDuplicates(pdf_urls)
    /\ Len(futures) <= num_pdfs
    /\ Cardinality({k \in DOMAIN handling : handling[k].saved}) <= num_pdfs
    /\ Cardinality(files) <= num_pdfs

\* two pdf links were discovered and num_pdfs = 1 cut the result to the first
C2_Witness ==
    /\ pc = "discovered"
    /\ num_pdfs = 1
    /\ Len(pdf_links) = 2
    /\ pdf_urls = <<pdf_links[1]>>

\* C3: no url is processed twice; the processed urls are the visited set; an
\* entry whose url is visited when dequeued is dropped with no request made
C3_VisitedSet ==
    /\ NoDuplicates([k \in DOMAIN fetched |-> fetched[k].url])
    /\ visited = {fetched[k].url : k \in DOMAIN fetched}
    /\ (last.wasVisited => last.kind = "skip" /\ last.gets = 0)
    /\ nfetch <= 2 * Len(fetched)

\* a url that was put on the queue twice was processed once and then skipped
C3_Witness ==
    /\ last.kind = "skip" /\ last.wasVisited
    /\ Cardinality({e \in enq : e.link = last.url}) >= 2

\* C4: pages are processed in non-decreasing depth, each at its shortest
\* followed-link distance from base_url
C4_BreadthFirst ==
    /\ \A j, k \in DOMAIN fetched : j <= k => fetched[j].depth <= fetched[k].depth
    /\ \A k \in DOMAIN fetched : fetched[k].depth = Distance(fetched[k].url)

\* a url was put on the queue at depth 1 and at depth 2, and processed at depth 1
C4_Witness ==
    /\ Len(fetched) = 3
    /\ \E e1, e2 \in enq : /\ e1.link = e2.link /\ e1.depth = 1 /\ e2.depth = 2
                           /\ \E k \in DOMAIN fetched :
                                fetched[k] = [url |-> e1.link, depth |-> 1]

\* C5: scrape_website returns None exactly when the run saved no text
C5_NoneIffNothingSaved ==
    pc = "done" => (ret = "None" <=> files = {})

\* C6: a failed download or extraction writes no file, every pdf whose download
\* and extraction succeeded has its file, and the run always goes on to its end
C6_FailureIsolation ==
    /\ \A k \in DOMAIN handling :
         LET h == handling[k]
         IN /\ (h.content = "empty" => h.text = "")
            /\ (h.saved <=> (h.content = "bytes" /\ h.text = "text"))
            /\ (h.saved <=> \E f \in files : f.url = h.url)
    /\ (pc # "done" => ENABLED Next)
    /\ (pc = "done" /\ pdf_urls # <<>> => Handled = DOMAIN pdf_urls)

\* the first completed download had failed, the second one was saved
C6_Witness ==
    /\ pc = "done"
    /\ Len(handling) = 2
    /\ ~handling[1].saved
    /\ handling[2].saved

----------------------------------------------------------------------------
(* Properties of generate_category_summaries *)

IsErrorEntry(e) ==
    /\ "error" \in DOMAIN e
    /\ e.error = TRUE
    /\ e.headline = ContentNotAvailable
    /\ e.detailed_content = <<>>

\* C7: one entry per (locality, category) pair, in iteration order; the entry
\* of a pair whose try block raised is an error entry, and the loop goes on, so
\* that the returned list has one entry for every pair whatever failed
C7_OneEntryPerPair ==
    /\ Len(all_summaries) = pos
    /\ Len(outcomes) = pos
    /\ \A k \in DOMAIN all_summaries :
         /\ all_summaries[k].locality = LocalityAt(k).locality
         /\ all_summaries[k].category = CategoryAt(k)
         /\ (outcomes[k] # "returned" <=> IsErrorEntry(all_summaries[k]))
         /\ (outcomes[k] = "returned" <=> "error" \notin DOMAIN all_summaries[k])
    /\ (s_pc = "returned" =>
          Len(all_summaries) = Len(rag_chains) * Len(CategoryQueries))

\* both localities were processed; an invocation raised and a later one returned
C7_Witness ==
    /\ s_pc = "returned"
    /\ Len(rag_chains) = 2
    /\ \E j, k \in DOMAIN outcomes : j < k /\ outcomes[j] = "raised" /\ outcomes[k] = "returned"

\* C8: with the chains create_rag_chains builds of category_prompts, no lookup
\* of a chain fails and every chain is invoked exactly once
C8_EveryChainInvokedOnce ==
    rag_chains = CreateRagChains(Localities, CategoryPrompts) =>
        /\ \A k \in DOMAIN outcomes : outcomes[k] # "KeyError"
        /\ (s_pc = "returned" =>
              \A l \in DOMAIN rag_chains : \A c \in rag_chains[l].chains :
                  Cardinality({k \in DOMAIN outcomes :
                                 /\ LocalityAt(k) = rag_chains[l]
                                 /\ CategoryAt(k) = c
                                 /\ outcomes[k] # "KeyError"}) = 1)

\* C9: the headline of every entry is not empty and has at most 80 characters
C9_HeadlineBounds ==
    \A k \in DOMAIN all_summaries :
        /\ all_summaries[k].headline # <<>>
        /\ Len(all_summaries[k].headline) <= HeadlineMax

\* a chain answered a text that is not empty and all of whose lines are list
\* lines, and the entry got the default headline
C9_Witness ==
    \E k \in DOMAIN all_summaries :
        LET e == all_summaries[k]
        IN /\ "error" \notin DOMAIN e
           /\ e.detailed_content # <<>>
           /\ \A j \in DOMAIN Split(e.detailed_content) :
                IsListLine(Split(e.detailed_content)[j])
           /\ e.headline = DefaultHeadline(e.category)

----------------------------------------------------------------------------
(* Properties of load_and_process_data *)

NonEmptyStr(cell) == cell[1] = "str" /\ cell[2] # ""

\* C10: the table has no record with error True or 'true', none without a
\* headline or detailed_content, none with an empty detailed_content; it keeps
\* every record with no error key and with headline and detailed_content not
\* empty; it is empty if no object has a headline or none has a detailed_content
C10_NoErrorEntryShown ==
    d_pc = "loaded" =>
        /\ \A k \in DOMAIN table :
             LET r == table[k].rec
             IN /\ Cell(r, "error") \notin {<<"bool", TRUE>>, <<"str", "true">>}
                /\ "headline" \in DOMAIN r /\ r.headline # <<"null">>
                /\ "detailed_content" \in DOMAIN r /\ r.detailed_content # <<"null">>
                /\ r.detailed_content # <<"str", "">>
                /\ r = data[table[k].idx]
        /\ \A k \in DOMAIN data :
             (/\ "error" \notin DOMAIN data[k]
              /\ NonEmptyStr(Cell(data[k], "headline"))
              /\ NonEmptyStr(Cell(data[k], "detailed_content")))
             => \E j \in DOMAIN table : table[j].idx = k
        /\ (\E c \in RequiredCols : c \notin Columns(data)) => table = <<>>

\* the list holds an error entry as generate_category_summaries writes it and a
\* normal entry; the table holds the normal entry alone
C10_Witness ==
    /\ d_pc = "loaded"
    /\ Len(data) = 2
    /\ data[1] = [error |-> <<"bool", TRUE>>, headline |-> <<"str", "h">>,
                  detailed_content |-> <<"str", "">>]
    /\ data[2] = [headline |-> <<"str", "h">>, detailed_content |-> <<"str", "d">>]
    /\ table = <<[idx |-> 2, rec |-> data[2]]>>

----------------------------------------------------------------------------
(* Properties of main *)

\* C11: in a run whose filter triple differs from the triple of the run before,
\* the filter block leaves page 0, no selected article and the new triple
\* remembered, and the page is still 0 when the articles are rendered; in a run
\* whose triple is the same, the filter block leaves page and selection as they
\* were; the remembered triple is the current one after every filter block
C11_ResetOnFilterChange ==
    /\ (m_pc \in {"paginate", "render"} =>
          /\ session_state["last_filters"] = current_filters
          /\ hist.cur = <<current_filters>>
          /\ (hist.prev # <<>> /\ hist.prev # hist.cur =>
                /\ session_state["page"] = 0
                /\ session_state["selected_article"] = <<>>))
    /\ (m_pc = "paginate" /\ hist.prev = hist.cur =>
          /\ session_state["page"] = hist.before["page"]
          /\ session_state["selected_article"] = hist.before["selected_article"])

\* the filters changed while page 2 was shown with an article selected
C11_Witness ==
    /\ m_pc = "paginate"
    /\ hist.prev # <<>> /\ hist.prev # hist.cur
    /\ hist.before["page"] = 1
    /\ hist.before["selected_article"] # <<>>
    /\ session_state["page"] = 0

----------------------------------------------------------------------------
(* Properties of _normalize_text *)

\* the text with every '-' and newline that stand between two word characters
\* taken out
RECURSIVE AllBreaksJoined(_, _)
AllBreaksJoined(t, i) ==
    IF i > Len(t) THEN <<>>
    ELSE IF /\ i > 1 /\ i + 2 <= Len(t)
            /\ t[i] = "-" /\ t[i + 1] = "\n"
            /\ IsWordChar(t[i - 1]) /\ IsWordChar(t[i + 2])
         THEN AllBreaksJoined(t, i + 2)
         ELSE <<t[i]>> \o AllBreaksJoined(t, i + 1)

\* C12: after the de-hyphenation of line 57, every word broken by '-' and a
\* newline is joined, the hyphen and the newline removed, consecutive breaks
\* included
C12_EveryBreakJoined ==
    t_pc \in {"joined", "done"} /\ arg # <<>> => t_text = AllBreaksJoined(arg, 1)

\* the reference: the maximal runs of lines that are not blank
NonBlankLine(lines, k) == Strip(lines[k]) # <<>>
RunStarts(lines) ==
    {k \in DOMAIN lines : NonBlankLine(lines, k) /\ (k = 1 \/ ~NonBlankLine(lines, k - 1))}
RunEnd(lines, k) ==
    CHOOSE j \in k..Len(lines) :
        /\ \A i \in k..j : NonBlankLine(lines, i)
        /\ (j = Len(lines) \/ ~NonBlankLine(lines, j + 1))
NthStart(lines, n) ==
    CHOOSE k \in RunStarts(lines) : Cardinality({j \in RunStarts(lines) : j < k}) = n - 1

\* a text without two spaces in a row
SingleSpaced(t) == \A i \in 1..(Len(t) - 1) : ~(t[i] = " " /\ t[i + 1] = " ")

\* the lines of a run, stripped, joined with one space, runs of spaces collapsed
RefParagraph(lines, k) ==
    CollapseSpaces(JoinWith([i \in 1..(RunEnd(lines, k) - k + 1) |-> Strip(lines[k + i - 1])],
                            <<" ">>))

\* the reference result: the paragraphs of the runs, joined with a blank line
RefResult(t) ==
    LET lines == Split(t)
    IN JoinWith([n \in 1..Cardinality(RunStarts(lines)) |->
                    RefParagraph(lines, NthStart(lines, n))],
                <<"\n", "\n">>)

\* the paragraphs of a result: the parts between blank lines
ParagraphCount(r) ==
    IF r = <<>> THEN 0
    ELSE 1 + Cardinality({i \in 1..(Len(r) - 1) : r[i] = "\n" /\ r[i + 1] = "\n"})

\* C16: the result is the reference of the de-hyphenated text: one paragraph for
\* each maximal run of lines that are not blank, its lines stripped and joined
\* with one space, spaces collapsed, the paragraphs joined with a blank line
C16_EqualsReference ==
    t_pc = "done" =>
        /\ result = RefResult(t_text)
        /\ ParagraphCount(result) = Cardinality(RunStarts(Split(t_text)))
        /\ ParagraphCount(result) = Cardinality(RunStarts(Split(arg)))
        /\ SingleSpaced(result)

\* a run of three lines: the first ends a sentence, the second is a header
C16_Witness ==
    /\ t_pc = "done"
    /\ arg = <<"a", ".", "\n", "A", "\n", "a">>
    /\ result = <<"a", ".", " ", "A", " ", "a">>

----------------------------------------------------------------------------
(* Properties of truncate_text and of _filter_content *)

\* C13: the string truncate_text returns has at most max_length characters, and
\* it is the text itself when the text has at most max_length characters
C13_AtMostMaxLength ==
    t_pc = "done" =>
        /\ Len(result) <= arg.max_length
        /\ (Len(arg.text) <= arg.max_length => result = arg.text)

\* the lines of the pattern-cleaned text that are to be kept: the blank ones,
\* and the ones with more than two words or with 15 characters or more
KeptLines(lines) ==
    {k \in DOMAIN lines :
        \/ Strip(lines[k]) = <<>>
        \/ WordCount(Strip(lines[k])) > 2
        \/ Len(Strip(lines[k])) >= 15}

NthKept(lines, n) ==
    CHOOSE k \in KeptLines(lines) : Cardinality({j \in KeptLines(lines) : j < k}) = n - 1

Expected(lines) ==
    [n \in 1..Cardinality(KeptLines(lines)) |-> Strip(lines[NthKept(lines, n)])]

\* C17: the result is made of the kept lines of the pattern-cleaned text,
\* stripped, in their order, a blank line kept as an empty line; a line of one
\* or two words with fewer than 15 characters is in it nowhere; it has no more
\* lines than the pattern-cleaned text
C17_LineFilter ==
    t_pc = "done" =>
        LET lines == Split(t_text)
            out == Split(result)
        IN /\ result = JoinLines(Expected(lines))
           /\ (Expected(lines) # <<>> => out = Expected(lines))
           /\ (Expected(lines) = <<>> => result = <<>>)
           /\ Len(out) <= Len(lines)
           /\ \A k \in DOMAIN out :
                \/ out[k] = <<>>
                \/ /\ out[k] = Strip(out[k])
                   /\ (WordCount(out[k]) > 2 \/ Len(out[k]) >= 15)

\* a short line was dropped, the blank line and the line of three words kept
C17_Witness ==
    /\ t_pc = "done"
    /\ arg = <<"a", "\n", " ", "\n", "a", " ", "b", " ", "c">>
    /\ result = <<"\n", "a", " ", "b", " ", "c">>

----------------------------------------------------------------------------
(* More properties of the crawl and of the downloads *)

\* C14: once num_pdfs distinct pdf links are collected, no further page is
\* processed: a page is processed only while fewer than num_pdfs are collected
C14_CrawlStopsAtLinkCount ==
    pc = "crawl" /\ num_pdfs >= 1 /\ last.kind = "process" =>
        Len(last.before) < num_pdfs

\* C15: every url put on the queue, and every page processed, is base_url or a
\* url that starts with base_url
C15_InternalLinksOnly ==
    /\ \A e \in enq : StartsWith(e.link, base_url)
    /\ \A k \in DOMAIN fetched : StartsWith(fetched[k].url, base_url)

\* C18: the calling thread handles one completed download at a time, each
\* download once and only when it has completed; no two texts of a run have the
\* same file name; scrape_website returns only when every download that was
\* submitted has completed and was handled; the count of saved texts is the
\* number of files written
C18_NoRaceOnOutput ==
    /\ Len(handling) = idx
    /\ \A j, k \in DOMAIN handling : j # k => handling[j].i # handling[k].i
    /\ \A k \in DOMAIN handling :
         /\ handling[k].content \in {"bytes", "empty"}
         /\ futures[handling[k].i] = handling[k].content
         /\ handling[k].name = k
    /\ \A j, k \in DOMAIN handling :
         j # k /\ handling[j].saved /\ handling[k].saved => handling[j].name # handling[k].name
    /\ \A f, g \in files : f.name = g.name => f = g
    /\ files = {[name |-> handling[k].name, url |-> handling[k].url] :
                  k \in {j \in DOMAIN handling : handling[j].saved}}
    /\ successful_extractions = Cardinality(files)
    /\ (pc = "done" /\ ret = "output_dir" =>
          /\ Len(futures) = Len(pdf_urls)
          /\ \A i \in DOMAIN futures : futures[i] \in {"bytes", "empty"}
          /\ Handled = DOMAIN futures)

\* two downloads ran at the same time, the second one submitted completed and
\* was handled first, and both texts were saved
C18_Witness ==
    /\ pc = "done"
    /\ workers = 2
    /\ Len(handling) = 2
    /\ handling[1].i = 2 /\ handling[2].i = 1
    /\ handling[1].saved /\ handling[2].saved
    /\ Cardinality(files) = 2

----------------------------------------------------------------------------
(* Properties of the output directory *)

\* C19: the directory of the first website of __main__ is the directory
\* txt_procc loads for Adayar, the directory of the second one the directory it
\* loads for Mylapore; a folder name has only letters, digits, '_' and '-'
C19_OutputFeedsModel ==
    /\ (t_pc \in {"named", "done"} =>
          \A i \in DOMAIN t_text :
              IsLetter(t_text[i]) \/ t_text[i] \in Digits \/ t_text[i] \in {"_", "-"})
    /\ (t_pc = "done" /\ arg = websites[1] => result = directory_paths.Adayar)
    /\ (t_pc = "done" /\ arg = websites[2] => result = directory_paths.Mylapore)

\* the directory of the website of Mylapore, whose host starts with 'www.'
C19_Witness ==
    /\ t_pc = "done"
    /\ arg = websites[2]
    /\ result = directory_paths.Mylapore

====
